---- MODULE Spec2Model ----
(***************************************************************************)
(* Model of auto_backup.py: the BackupSystem object, the filesystem it     *)
(* works on (per-repository workspaces, the local backup store, the        *)
(* durable sink) and the sequence of calls made by main().  One process    *)
(* (one invocation of main) runs at a time; successive invocations share   *)
(* the filesystem and the clock.                                           *)
(***************************************************************************)
EXTENDS Integers, Sequences, FiniteSets, TLC

\* ------------------------------------------------------------------ bounds
\* number of invocations of main() on the same host
MaxRuns == 2
\* length of the listing returned by `gh repo list`
MaxListing == 2
\* clock resolution: ticks per second (timestamps are cut to whole seconds)
TicksPerSecond == 2
\* files of a directory tree given to calculate_checksum
MaxFiles == 2
\* bytes of one file
MaxBytes == 1
\* calls of calculate_checksum on one tree
MaxCalls == 2

\* ------------------------------------------------------- program constants
RetentionDays == 30
SecondsPerDay == 86400
SinkName == "backup"

\* ------------------------------------------------------------- environment
RepoNames == {"alpha", "beta"}
ListedNames == RepoNames \cup {SinkName}
\* UTC offset (seconds east of UTC) of the local time zone of the process
TzOffsets == {-18000, 0, 19800}
\* size in bytes of a non-empty archive
ArchiveBytes == 1024

RetentionTicks == RetentionDays * SecondsPerDay * TicksPerSecond
\* time elapsed between two invocations of main(), in ticks
Advances == {1, RetentionTicks, RetentionTicks + 1}

\* Python's None, and values that are either None or present
None == << >>
Digest == <<"sha256">>

VARIABLES
    pc,          \* position of main(): start, list, loop, save, cleanup, upload, summary, done, crashed
    runs,        \* number of invocations of main() started so far
    clock,       \* true UTC time in ticks since the epoch
    timestamp,   \* self.timestamp
    backup_log,  \* self.backup_log
    repos,       \* local `repos` of backup_all_repositories
    idx,         \* position of the for loop over repos (1-based, next to process)
    temp,        \* backup_dir/temp/<repo>: absent, empty or cloned (non-empty)
    store,       \* files of backup_dir: records [name, mtime, size]
    sink,        \* files of repo_evaluation/backup/backups: <<run dir, file name>>
    trace,       \* per repository processed in this run: the steps reached, the one that raised
    crashAt,     \* where an exception left main(), "none" if it has not
    lastOp,      \* what the last step of main() observed (for the retention and publish steps)
    ck           \* a directory tree and the calls of calculate_checksum made on it

vars == <<ck, pc, runs, clock, timestamp, backup_log, repos, idx, temp, store, sink, trace, crashAt, lastOp>>

\* --------------------------------------------------------------- helpers
Last(s) == s[Len(s)]

Range(s) == {s[i] : i \in 1..Len(s)}

IsInjective(s) == \A i, j \in 1..Len(s) : s[i] = s[j] => i = j

\* strftime("%Y%m%d_%H%M%S"): the time cut to whole seconds
Timestamp(t) == t \div TicksPerSecond

\* datetime.utcnow().timestamp(): the naive UTC wall clock read as local time
UtcNowTimestamp(t, offset) == t - offset * TicksPerSecond

ArchiveName(repo, ts) == <<"archive", repo, ts>>

LogName(ts) == <<"log", "", ts>>

IsArchive(f) == f.name[1] = "archive"

FileNames(st) == {f.name : f \in st}

FileAt(st, name) == CHOOSE f \in st : f.name = name

\* open(..., 'w') / make_archive: create or overwrite the file of that name
WriteFile(st, name, mtime, size) ==
    {f \in st : f.name # name} \cup {[name |-> name, mtime |-> mtime, size |-> size]}

NoOp == [op |-> "none", stale |-> {}, undeletable |-> {}, copied |-> {}]

FreshLog == [timestamp |-> 0, repositories |-> << >>, status |-> "not_started",
             errors |-> << >>, summary |-> None]

\* ---------------------------------------------------- calculate_checksum
\* names of files and directories, numbered in lexicographic order
EntryNames == {1, 2}

Bytes == {0, 1}

ByteStrings == UNION {[1..n -> Bytes] : n \in 0..MaxBytes}

\* a file: its bytes, and whether open(filepath, 'rb') succeeds
Contents ==
    {[bytes |-> b, readable |-> TRUE] : b \in ByteStrings}
        \cup {[bytes |-> <<0>>, readable |-> FALSE]}

\* paths of files below the directory: in it or in one of its sub-directories
Paths == {<<n>> : n \in EntryNames} \cup {<<d, n>> : d, n \in EntryNames}

IsProperPrefix(p, q) == Len(p) < Len(q) /\ SubSeq(q, 1, Len(p)) = p

\* a directory tree: the content of each of its files, by path
Trees ==
    UNION {[S -> Contents] :
             S \in {T \in SUBSET Paths :
                      /\ Cardinality(T) <= MaxFiles
                      /\ \A p, q \in T : ~IsProperPrefix(p, q)}}

\* the directories of the tree, the top one included
DirsIn(tree) ==
    {<< >>} \cup UNION {{SubSeq(p, 1, k) : k \in 1..(Len(p) - 1)} : p \in DOMAIN tree}

FilesOf(tree, dir) == {n \in EntryNames : Append(dir, n) \in DOMAIN tree}

DirsOf(tree, dir) == {n \in EntryNames : Append(dir, n) \in DirsIn(tree)}

\* the orders in which the filesystem may list the entries of a directory
Perms == {s \in [1..Cardinality(EntryNames) -> EntryNames] : IsInjective(s)}

\* one listing order per directory of the tree
ListingOrders(tree) == [DirsIn(tree) -> Perms]

\* the entries `names` as os.walk hands them over: in the filesystem's order
Listed(names, perm) == SelectSeq(perm, LAMBDA n : n \in names)

Insert(x, s) ==
    SelectSeq(s, LAMBDA y : y <= x) \o <<x>> \o SelectSeq(s, LAMBDA y : y > x)

RECURSIVE Sort(_)
\* mutant of Sort: dirs.sort() and files.sort() dropped
SortDropped(s) == s

\* list.sort()
Sort(s) == IF s = << >> THEN << >> ELSE Insert(Head(s), Sort(Tail(s)))

\* f.read() inside try/except: an unreadable file contributes nothing
ReadFile(f) == IF f.readable THEN f.bytes ELSE << >>

\* the bytes given to hasher.update for the files of one directory, in order
RECURSIVE FeedFiles(_, _, _)
FeedFiles(tree, dir, files) ==
    IF files = << >> THEN << >>
    ELSE ReadFile(tree[Append(dir, Head(files))]) \o FeedFiles(tree, dir, Tail(files))

RECURSIVE Walk(_, _, _)
RECURSIVE WalkDirs(_, _, _, _)
\* mutant of WalkDirs: the sub-directories are not visited
WalkDirsSkipped(tree, dir, dirs, order) == << >>

\* os.walk going down into the sub-directories, in the order of `dirs`
WalkDirs(tree, dir, dirs, order) ==
    IF dirs = << >> THEN << >>
    ELSE Walk(tree, Append(dir, Head(dirs)), order) \o WalkDirs(tree, dir, Tail(dirs), order)

\* the byte stream hashed for the directory `dir` and everything below it
Walk(tree, dir, order) ==
    LET files == Sort(Listed(FilesOf(tree, dir), order[dir]))
        dirs == Sort(Listed(DirsOf(tree, dir), order[dir]))
    IN  FeedFiles(tree, dir, files) \o WalkDirs(tree, dir, dirs, order)

\* hasher.hexdigest(), the hash taken as collision-free: one digest per stream
HexDigest(stream) == <<"sha256", stream>>

calculate_checksum(tree, order) == HexDigest(Walk(tree, << >>, order))

NoCk == [tree |-> << >>, calls |-> << >>, modified |-> FALSE]

\* calculate_checksum(directory), the filesystem listing each directory in some order
CalculateChecksum ==
    /\ pc = "checksum"
    /\ Len(ck.calls) < MaxCalls
    /\ \E order \in ListingOrders(ck.tree) :
          ck' = [ck EXCEPT !.calls = Append(@, [tree |-> ck.tree, order |-> order,
                                                digest |-> calculate_checksum(ck.tree, order)])]
    /\ UNCHANGED <<pc, runs, clock, timestamp, backup_log, repos, idx, temp, store, sink, trace,
                   crashAt, lastOp>>

\* between two calls, the content of one or more files of the tree is replaced
ModifyFiles ==
    /\ pc = "checksum"
    /\ ~ck.modified
    /\ Len(ck.calls) >= 1
    /\ \E t \in [DOMAIN ck.tree -> Contents] :
          /\ t # ck.tree
          /\ ck' = [ck EXCEPT !.tree = t, !.modified = TRUE]
    /\ UNCHANGED <<pc, runs, clock, timestamp, backup_log, repos, idx, temp, store, sink, trace,
                   crashAt, lastOp>>

\* ------------------------------------------------------------------- Init
Init ==
    /\ ck = NoCk
    /\ pc = "start"
    /\ runs = 0
    /\ clock = 0
    /\ timestamp = 0
    /\ backup_log = FreshLog
    /\ repos = << >>
    /\ idx = 1
    /\ temp = [r \in RepoNames |-> "absent"]
    /\ store = {}
    /\ sink = {}
    /\ trace = << >>
    /\ crashAt = "none"
    /\ lastOp = NoOp

\* ------------------------------------------------- BackupSystem.__init__
Construct ==
    /\ pc = "start"
    /\ runs' = runs + 1
    /\ timestamp' = Timestamp(clock)
    /\ backup_log' = [timestamp |-> clock, repositories |-> << >>, status |-> "in_progress",
                      errors |-> << >>, summary |-> None]
    /\ pc' = "list"
    /\ UNCHANGED <<ck, clock, repos, idx, temp, store, sink, trace, crashAt, lastOp>>

\* ------------------------------------------------- get_all_repositories
RawListings ==
    {s \in UNION {[1..n -> ListedNames] : n \in 0..MaxListing} : IsInjective(s)}

FilterSink(raw) == SelectSeq(raw, LAMBDA n : n # SinkName)

ListError == [kind |-> "list", repo |-> ""]

\* mutant of GetAllRepositoriesResult: the except clause keeps the listing
GetAllRepositoriesKeepsListing(ok, raw, errs) ==
    [repos |-> FilterSink(raw), errors |-> IF ok THEN errs ELSE Append(errs, ListError)]

\* result of get_all_repositories: the returned list and the errors list
GetAllRepositoriesResult(ok, raw, errs) ==
    IF ok THEN [repos |-> FilterSink(raw), errors |-> errs]
    ELSE [repos |-> << >>, errors |-> Append(errs, ListError)]

GetAllRepositories ==
    /\ pc = "list"
    /\ \E ok \in BOOLEAN, raw \in RawListings :
          LET r == GetAllRepositoriesResult(ok, raw, backup_log.errors) IN
          /\ repos' = r.repos
          /\ backup_log' = [backup_log EXCEPT !.errors = r.errors]
    /\ idx' = 1
    /\ pc' = "loop"
    /\ UNCHANGED <<ck, runs, clock, timestamp, temp, store, sink, trace, crashAt, lastOp>>

\* ------------------------------------------------------ clone_repository
CloneError(repo) == [kind |-> "clone", repo |-> repo]

\* `gh repo clone` refuses a destination that exists and is not empty
CloneSucceeds(cloneOk, tmp, repo) == cloneOk /\ tmp[repo] = "empty"

\* mutant of CloneRepositoryResult: the except clause returns True
CloneRepositoryAlwaysTrue(ok, repo, tmp, errs) ==
    [ok |-> TRUE, temp |-> [tmp EXCEPT ![repo] = "cloned"],
     errors |-> IF ok THEN errs ELSE Append(errs, CloneError(repo))]

CloneRepositoryResult(ok, repo, tmp, errs) ==
    IF ok THEN [ok |-> TRUE, temp |-> [tmp EXCEPT ![repo] = "cloned"], errors |-> errs]
    ELSE [ok |-> FALSE, temp |-> tmp, errors |-> Append(errs, CloneError(repo))]

\* -------------------------------------------------------- create_archive
\* the store after shutil.make_archive returned: a non-empty archive, an
\* archive of size 0, or no file at the archive path
CreateArchiveStore(outcome, repo, ts, now, st) ==
    CASE outcome = "ok" -> WriteFile(st, ArchiveName(repo, ts), now, ArchiveBytes)
      [] outcome = "empty" -> WriteFile(st, ArchiveName(repo, ts), now, 0)
      [] OTHER -> {f \in st : f.name # ArchiveName(repo, ts)}

\* ----------------------------------------------------- backup_repository
\* outcomes of the external steps of one repository: FALSE is a raised
\* exception (for clone: a failed `gh repo clone`)
Outcomes ==
    [mkdir : BOOLEAN, clone : BOOLEAN, checksum : BOOLEAN,
     archive : {"ok", "empty", "missing", "fault"}, rmtree : BOOLEAN]

\* mutant of InitialInfo: the archive path is filled in before the archive exists
InitialInfoWithPath(repo, ts) ==
    [name |-> repo, timestamp |-> ts, status |-> "failed", checksum |-> None,
     size_bytes |-> 0, archive_path |-> ArchiveName(repo, ts), error |-> None]

InitialInfo(repo, ts) ==
    [name |-> repo, timestamp |-> ts, status |-> "failed", checksum |-> None,
     size_bytes |-> 0, archive_path |-> None, error |-> None]

\* temp_dir.mkdir(parents=True, exist_ok=True)
MkDir(tmp, repo) == IF tmp[repo] = "absent" THEN [tmp EXCEPT ![repo] = "empty"] ELSE tmp

\* shutil.rmtree(temp_dir)
RmTree(tmp, repo) == [tmp EXCEPT ![repo] = "absent"]

\* mutant of ArchiveVerified: the size test of line 110 dropped
ArchiveVerifiedIgnoringSize(st, path) == path \in FileNames(st)

\* archive_path.exists() and archive_path.stat().st_size > 0
ArchiveVerified(st, path) == path \in FileNames(st) /\ FileAt(st, path).size > 0

BackupError(repo) == [kind |-> "backup", repo |-> repo]

\* mutant of ExceptHandler: the exception is swallowed without a diagnostic
ExceptHandlerSilent(info, errs, repo, step) ==
    [info |-> [info EXCEPT !.error = <<step>>], errors |-> errs]

\* the except clause of backup_repository
ExceptHandler(info, errs, repo, step) ==
    [info |-> [info EXCEPT !.error = <<step>>], errors |-> Append(errs, BackupError(repo))]

\* backup_repository(repo) run from temp directories tmp, store st and errors
\* list errs: whether an exception left the function, the returned
\* backup_info, the filesystem and errors list afterwards, and the steps
\* reached, the step that raised, the outcome of the clone and the state of
\* the destination directory when the clone was invoked
BackupRepositoryResult(repo, o, ts, now, tmp, st, errs) ==
    LET info0 == InitialInfo(repo, ts)
        tmp1 == MkDir(tmp, repo)
        cl == CloneRepositoryResult(CloneSucceeds(o.clone, tmp1, repo), repo, tmp1, errs)
        info1 == [info0 EXCEPT !.checksum = Digest]
        path == ArchiveName(repo, ts)
        st1 == CreateArchiveStore(o.archive, repo, ts, now, st)
        info2 == [info1 EXCEPT !.archive_path = path]
        info3 == [info2 EXCEPT !.size_bytes = FileAt(st1, path).size]
        info4 == IF ArchiveVerified(st1, path) THEN [info3 EXCEPT !.status = "success"] ELSE info3
        Ret(propagated, info, t, s, e, steps, raisedAt) ==
            [propagated |-> propagated, info |-> info, temp |-> t, store |-> s, errors |-> e,
             trace |-> [name |-> repo, steps |-> steps, raisedAt |-> raisedAt,
                        clone |-> IF Len(steps) < 2 THEN "none"
                                  ELSE IF CloneSucceeds(o.clone, tmp1, repo) THEN "ok"
                                  ELSE "failed",
                        dest |-> IF Len(steps) < 2 THEN "none" ELSE tmp1[repo]]]
        Caught(info, t, s, steps) ==
            LET h == ExceptHandler(info, cl.errors, repo, Last(steps)) IN
            Ret(FALSE, h.info, t, s, h.errors, steps, Last(steps))
    IN  IF ~o.mkdir THEN
            Ret(TRUE, info0, tmp, st, errs, <<"mkdir">>, "mkdir")
        ELSE IF ~cl.ok THEN
            Ret(FALSE, info0, cl.temp, st, cl.errors, <<"mkdir", "clone">>, "none")
        ELSE IF ~o.checksum THEN
            Caught(info0, cl.temp, st, <<"mkdir", "clone", "checksum">>)
        ELSE IF o.archive = "fault" THEN
            Caught(info1, cl.temp, st, <<"mkdir", "clone", "checksum", "archive">>)
        ELSE IF path \notin FileNames(st1) THEN
            Caught(info2, cl.temp, st1, <<"mkdir", "clone", "checksum", "archive", "stat">>)
        ELSE IF ~o.rmtree THEN
            Caught(info4, cl.temp, st1,
                   <<"mkdir", "clone", "checksum", "archive", "stat", "verify", "rmtree">>)
        ELSE
            Ret(FALSE, info4, RmTree(cl.temp, repo), st1, cl.errors,
                <<"mkdir", "clone", "checksum", "archive", "stat", "verify", "rmtree">>, "none")

\* one iteration of the for loop of backup_all_repositories
BackupRepository ==
    /\ pc = "loop"
    /\ idx <= Len(repos)
    /\ \E o \in Outcomes :
          LET r == BackupRepositoryResult(repos[idx], o, timestamp, clock, temp, store,
                                          backup_log.errors) IN
          /\ trace' = Append(trace, r.trace)
          /\ IF r.propagated
             THEN /\ pc' = "crashed"
                  /\ crashAt' = "mkdir_temp"
                  /\ UNCHANGED <<backup_log, idx, temp, store>>
             ELSE /\ backup_log' = [backup_log EXCEPT
                                       !.repositories = Append(@, r.info),
                                       !.errors = r.errors]
                  /\ temp' = r.temp
                  /\ store' = r.store
                  /\ idx' = idx + 1
                  /\ UNCHANGED <<pc, crashAt>>
    /\ UNCHANGED <<ck, runs, clock, timestamp, repos, sink, lastOp>>

\* -------------------- backup_all_repositories: the final status and summary
SuccessCount(records) == Cardinality({i \in 1..Len(records) : records[i].status = "success"})

\* mutant of RunStatus: one success is enough for "completed"
RunStatusAnySuccess(success_count, total) ==
    IF success_count > 0 \/ total = 0 THEN "completed" ELSE "partial"

RunStatus(success_count, total) == IF success_count = total THEN "completed" ELSE "partial"

Summary(success_count, total) ==
    [total |-> total, success |-> success_count, failed |-> total - success_count]

FinalStatus ==
    /\ pc = "loop"
    /\ idx > Len(repos)
    /\ LET success_count == SuccessCount(backup_log.repositories) IN
       backup_log' = [backup_log EXCEPT
                         !.status = RunStatus(success_count, Len(repos)),
                         !.summary = <<Summary(success_count, Len(repos))>>]
    /\ pc' = "save"
    /\ UNCHANGED <<ck, runs, clock, timestamp, repos, idx, temp, store, sink, trace, crashAt, lastOp>>

\* -------------------------------------------------------- save_backup_log
LogBytes == 512

\* mutant of SaveBackupLog: main goes on without the log having been written
SaveBackupLogSkipped ==
    /\ pc = "save"
    /\ pc' = "cleanup"
    /\ UNCHANGED <<ck, runs, clock, timestamp, backup_log, repos, idx, temp, store, sink, trace,
                   crashAt, lastOp>>

SaveBackupLog ==
    /\ pc = "save"
    /\ \E ok \in BOOLEAN :
          IF ok
          THEN /\ store' = WriteFile(store, LogName(timestamp), clock, LogBytes)
               /\ pc' = "cleanup"
               /\ UNCHANGED crashAt
          ELSE /\ pc' = "crashed"
               /\ crashAt' = "save_log"
               /\ UNCHANGED store
    /\ UNCHANGED <<ck, runs, clock, timestamp, backup_log, repos, idx, temp, sink, trace, lastOp>>

\* ---------------------------------------------------- cleanup_old_backups
CutoffTime(now, offset, retention_days) ==
    UtcNowTimestamp(now, offset) - retention_days * SecondsPerDay * TicksPerSecond

\* the files of glob("*.tar.gz") that pass the test of line 154
StaleArchives(st, cutoff_time) == {f \in st : IsArchive(f) /\ f.mtime < cutoff_time}

\* mutant of CleanupStore: the first unlink that raises ends the loop
CleanupStoreAbort(st, cutoff_time, undeletable) ==
    IF undeletable = {} THEN st \ StaleArchives(st, cutoff_time) ELSE st

\* the store after the loop: every stale archive is unlinked unless its unlink raised
CleanupStore(st, cutoff_time, undeletable) == st \ (StaleArchives(st, cutoff_time) \ undeletable)

CleanupOldBackups ==
    /\ pc = "cleanup"
    /\ \E offset \in TzOffsets :
          LET cutoff_time == CutoffTime(clock, offset, RetentionDays) IN
          \E undeletable \in SUBSET StaleArchives(store, cutoff_time) :
             /\ store' = CleanupStore(store, cutoff_time, undeletable)
             /\ lastOp' = [NoOp EXCEPT !.op = "cleanup",
                                        !.stale = StaleArchives(store, cutoff_time),
                                        !.undeletable = undeletable]
    /\ pc' = "upload"
    /\ UNCHANGED <<ck, runs, clock, timestamp, backup_log, repos, idx, temp, sink, trace, crashAt>>

\* -------------------------------------------------- upload_to_backup_repo
\* files of backups/<timestamp>/ after copying the files `names` of the store
CopyInto(snk, ts, names) == snk \cup {<<ts, n>> : n \in names}

\* mutant of FilesToCopy: the pattern selects the archives only
FilesToCopyArchivesOnly(st) == {f.name : f \in {g \in st : IsArchive(g)}}

\* the items of backup_dir.glob("*") that are files
FilesToCopy(st) == FileNames(st)

\* mutant of LogAfterUpload: a failed publish downgrades the run status
LogAfterUploadMarksFailure(log, git_ok) ==
    IF git_ok THEN log ELSE [log EXCEPT !.status = "partial"]

\* self.backup_log after the try/except of lines 182-192: both branches only print
LogAfterUpload(log, git_ok) == log

UploadToBackupRepo ==
    /\ pc = "upload"
    /\ \/ \* backups_dir.mkdir raises
          /\ pc' = "crashed"
          /\ crashAt' = "upload_mkdir"
          /\ lastOp' = [NoOp EXCEPT !.op = "upload"]
          /\ UNCHANGED <<sink, backup_log>>
       \/ \* shutil.copy2 raises after some of the files were copied
          /\ \E copied \in SUBSET FilesToCopy(store) :
                /\ copied # FilesToCopy(store)
                /\ sink' = CopyInto(sink, timestamp, copied)
                /\ lastOp' = [NoOp EXCEPT !.op = "upload", !.copied = copied]
          /\ pc' = "crashed"
          /\ crashAt' = "upload_copy"
          /\ UNCHANGED backup_log
       \/ \* every file copied; chdir, git add, commit and push succeed, or one
          \* of them raises and the except clause prints the warning
          /\ sink' = CopyInto(sink, timestamp, FilesToCopy(store))
          /\ \E git_ok \in BOOLEAN :
                /\ lastOp' = [NoOp EXCEPT !.op = IF git_ok THEN "uploaded" ELSE "upload_warning",
                                          !.copied = FilesToCopy(store)]
                /\ backup_log' = LogAfterUpload(backup_log, git_ok)
          /\ pc' = "summary"
          /\ UNCHANGED crashAt
    /\ UNCHANGED <<ck, runs, clock, timestamp, repos, idx, temp, store, trace>>

\* ---------------------------------------------- main: the summary block
PrintSummary ==
    /\ pc = "summary"
    /\ pc' = "done"
    /\ UNCHANGED <<ck, runs, clock, timestamp, backup_log, repos, idx, temp, store, sink, trace,
                   crashAt, lastOp>>

\* the process has ended (normally or by an uncaught exception); a later
\* invocation of main() starts from the same filesystem with fresh memory
NextRun ==
    /\ pc \in {"done", "crashed"}
    /\ runs < MaxRuns
    /\ \E d \in Advances : clock' = clock + d
    /\ pc' = "start"
    /\ timestamp' = 0
    /\ backup_log' = FreshLog
    /\ repos' = << >>
    /\ idx' = 1
    /\ trace' = << >>
    /\ crashAt' = "none"
    /\ lastOp' = NoOp
    /\ UNCHANGED <<ck, runs, temp, store, sink>>

Next ==
    \/ Construct
    \/ GetAllRepositories
    \/ BackupRepository
    \/ FinalStatus
    \/ SaveBackupLog
    \/ CleanupOldBackups
    \/ UploadToBackupRepo
    \/ PrintSummary
    \/ NextRun

Spec == Init /\ [][Next]_vars

\* calculate_checksum on its own: any tree, any listing orders
InitChecksum ==
    /\ ck \in {[NoCk EXCEPT !.tree = t] : t \in Trees}
    /\ pc = "checksum"
    /\ runs = 0
    /\ clock = 0
    /\ timestamp = 0
    /\ backup_log = FreshLog
    /\ repos = << >>
    /\ idx = 1
    /\ temp = [r \in RepoNames |-> "absent"]
    /\ store = {}
    /\ sink = {}
    /\ trace = << >>
    /\ crashAt = "none"
    /\ lastOp = NoOp

NextChecksum == CalculateChecksum \/ ModifyFiles

SpecChecksum == InitChecksum /\ [][NextChecksum]_vars

\* ===================================================================
\* Properties
\* ===================================================================
Records == backup_log.repositories

Errors == backup_log.errors

ErrorsNaming(repo) == {k \in 1..Len(Errors) : Errors[k].repo = repo}

\* backup_all_repositories has returned
Returned == backup_log.summary # None

\* create_archive returned a path for the repository of this trace entry
ArchiveReturned(t) == "stat" \in Range(t.steps)

\* C1: a record with status 'success' has a checksum, an archive path and
\* size_bytes > 0, and its archive is in the store with that size; a record
\* whose archive was packaged but is missing or has size 0 is 'failed' although
\* its checksum was computed.
C1_SuccessImpliesVerifiedArchive ==
    \A i \in 1..Len(Records) :
        LET r == Records[i] IN
        /\ r.status = "success" =>
              /\ r.checksum # None
              /\ r.archive_path = ArchiveName(r.name, timestamp)
              /\ r.size_bytes > 0
              /\ \E f \in store : f.name = r.archive_path /\ f.size = r.size_bytes
        /\ (ArchiveReturned(trace[i])
              /\ (ArchiveName(r.name, timestamp) \notin FileNames(store)
                    \/ FileAt(store, ArchiveName(r.name, timestamp)).size = 0)) =>
              r.status = "failed" /\ r.checksum = Digest

C1_Witness ==
    /\ \E i \in 1..Len(Records) : Records[i].status = "success"
    /\ \E i \in 1..Len(Records) :
          /\ Records[i].status = "failed"
          /\ Records[i].checksum = Digest
          /\ \E f \in store : f.name = Records[i].archive_path /\ f.size = 0

\* C2: once backup_all_repositories has returned, the run status is
\* 'completed' iff every record is 'success' and 'partial' otherwise, and the
\* summary has total = number of repositories = number of records, success =
\* number of 'success' records, failed = total - success = number of 'failed'
\* records.
C2_StatusAndSummary ==
    Returned =>
        LET sm == backup_log.summary[1]
            ok == {i \in 1..Len(Records) : Records[i].status = "success"}
            ko == {i \in 1..Len(Records) : Records[i].status = "failed"}
        IN  /\ backup_log.status \in {"completed", "partial"}
            /\ backup_log.status = "completed" <=> ok = 1..Len(Records)
            /\ (ok = {} /\ Len(Records) > 0) => backup_log.status = "partial"
            /\ sm.total = Len(repos)
            /\ sm.total = Len(Records)
            /\ sm.success = Cardinality(ok)
            /\ sm.failed = sm.total - sm.success
            /\ sm.failed = Cardinality(ko)

C2_Witness ==
    /\ Returned
    /\ backup_log.status = "partial"
    /\ \E i \in 1..Len(Records) : Records[i].status = "success"
    /\ \E i \in 1..Len(Records) : Records[i].status = "failed"

\* C3: whatever failure occurs while a repository is processed, the run
\* appends exactly one record for every discovered repository, in discovery
\* order (so once the loop is left there is one record per repository).
C3_OneRecordPerRepository ==
    pc \notin {"start", "list", "loop"} =>
        /\ Len(Records) = Len(repos)
        /\ \A i \in 1..Len(Records) : Records[i].name = repos[i]

\* C4: the workspace of a repository is removed before the next repository
\* is processed, on every exit path: no processed repository of the run has
\* its workspace left on disk.
C4_WorkspaceRemoved ==
    \A i \in 1..Len(Records) : temp[Records[i].name] = "absent"

\* C5: a fault raised and caught while a repository is processed adds a
\* diagnostic naming the repository and leaves its record 'failed': every
\* 'Backup failed for <repo>' entry belongs to a record whose status is
\* 'failed'.
C5_CaughtFaultMeansFailed ==
    \A i \in 1..Len(Records) :
        /\ (trace[i].raisedAt # "none" \/ trace[i].clone = "failed") =>
              /\ ErrorsNaming(Records[i].name) # {}
              /\ Records[i].status = "failed"
        /\ BackupError(Records[i].name) \in Range(Errors) => Records[i].status = "failed"

\* C6: a failure of a publishing step never propagates out of
\* upload_to_backup_repo: main is never ended by an exception of the publish
\* step.
C6_PublishFailureNeverPropagates ==
    ~(pc = "crashed" /\ crashAt \in {"upload_mkdir", "upload_copy"})

\* C7: when no deletion fails, cleanup_old_backups deletes a file of the
\* store iff it is an archive and now - mtime > retention_days * 86400.
C7_PruneIffOlderThanRetention ==
    [][(pc = "cleanup" /\ pc' = "upload" /\ lastOp'.undeletable = {}) =>
          \A f \in store :
              f \notin store' <=> (IsArchive(f) /\ clock - f.mtime > RetentionTicks)]_vars

\* C8: when the listing call fails, get_all_repositories returns the empty
\* list and appends exactly one diagnostic; the run has no records and ends
\* 'completed' with summary {total 0, success 0, failed 0}.
C8_ListingFailureGivesEmptyRun ==
    ListError \in Range(Errors) =>
        /\ repos = << >>
        /\ Records = << >>
        /\ Errors = <<ListError>>
        /\ pc \notin {"start", "list"}
        /\ Returned =>
              /\ backup_log.status = "completed"
              /\ backup_log.summary = <<[total |-> 0, success |-> 0, failed |-> 0]>>
        /\ pc \in {"save", "cleanup", "upload", "summary", "done"} => Returned

C8_Witness == ListError \in Range(Errors) /\ pc = "done"

\* C9: when the clone of a repository fails, the processing of that
\* repository runs no checksum and no archive step, leaves the store as it was,
\* returns the record 'failed' with checksum null, size_bytes 0 and
\* archive_path null, and appends exactly one entry, naming the repository, to
\* the errors.
C9_CloneFailure ==
    [][(Len(trace') = Len(trace) + 1 /\ Last(trace').clone = "failed") =>
          /\ Last(trace').steps = <<"mkdir", "clone">>
          /\ store' = store
          /\ Len(Records') = Len(Records) + 1
          /\ Last(Records') = [name |-> repos[idx], timestamp |-> timestamp,
                               status |-> "failed", checksum |-> None, size_bytes |-> 0,
                               archive_path |-> None, error |-> None]
          /\ Len(Errors') = Len(Errors) + 1
          /\ SubSeq(Errors', 1, Len(Errors)) = Errors
          /\ Last(Errors').repo = repos[idx]]_vars

C9_Witness ==
    \E i \in 1..Len(Records) :
        /\ trace[i].clone = "failed"
        /\ Cardinality(ErrorsNaming(Records[i].name)) = 1
        /\ Records[i].status = "failed"

\* C10 as stated: every record whose status is 'failed' has archive_path null.
C10_FailedHasNoArchivePath ==
    \A i \in 1..Len(Records) :
        Records[i].status = "failed" => Records[i].archive_path = None

\* C10 amended: a 'failed' record has archive_path null iff the failure came
\* before create_archive returned (clone failure, fault in the checksum or
\* archive step); a 'failed' record made after create_archive returned keeps
\* the path of the archive, with size_bytes 0.
C10_FailedPathIffArchiveReturned ==
    \A i \in 1..Len(Records) :
        LET r == Records[i] IN
        r.status = "failed" =>
            /\ r.archive_path = None <=> ~ArchiveReturned(trace[i])
            /\ ArchiveReturned(trace[i]) =>
                  r.archive_path = ArchiveName(r.name, timestamp) /\ r.size_bytes = 0

C10_Witness ==
    /\ \E i \in 1..Len(Records) :
          Records[i].status = "failed" /\ Records[i].archive_path # None
    /\ \E i \in 1..Len(Records) :
          Records[i].status = "failed" /\ Records[i].archive_path = None

\* C11: the clone is always invoked with an empty destination directory, in
\* every run, also after earlier runs on the same store.
C11_CloneDestinationEmpty ==
    \A i \in 1..Len(trace) : trace[i].dest \in {"none", "empty"}

\* C14: a deletion that fails in cleanup_old_backups is caught: the call
\* returns, every other stale archive is deleted in the same call and only
\* stale archives are deleted.
C14_DeletionFailuresIsolated ==
    [][pc = "cleanup" /\ pc' # "cleanup" =>
          /\ pc' = "upload"
          /\ lastOp'.undeletable \subseteq store'
          /\ \A f \in lastOp'.stale \ lastOp'.undeletable : f \notin store'
          /\ store \ store' \subseteq lastOp'.stale]_vars

C14_Witness ==
    /\ lastOp.op = "cleanup"
    /\ lastOp.undeletable # {}
    /\ lastOp.stale \ lastOp.undeletable # {}
    /\ lastOp.undeletable \subseteq store
    /\ (lastOp.stale \ lastOp.undeletable) \cap store = {}

\* C15: the run_id is unique per run: when a run starts, no file of the
\* local store and no publish sub-directory carries its run_id, so no other
\* run wrote or will share its archive paths, its log file and its publish
\* sub-directory.
C15_RunIdUnique ==
    pc = "list" =>
        /\ \A f \in store : f.name[3] # timestamp
        /\ \A e \in sink : e[1] # timestamp

\* the copy loop of upload_to_backup_repo has ended without an exception
Published == lastOp.op \in {"uploaded", "upload_warning"}

\* C16 as stated: every file that upload_to_backup_repo copies is an artifact
\* of the current run_id.
C16_CopiedFilesAreOfThisRun ==
    \A n \in lastOp.copied : n[3] = timestamp

\* C16 amended: upload_to_backup_repo copies the files present in the local
\* store, whatever run wrote them: when the copy loop ends, every file of the
\* store, this run's log included, is in backups/{run_id}/; a copy loop ended
\* by an exception has copied some of the files of the store.
C16_CopiesWholeStore ==
    /\ lastOp.copied \subseteq FileNames(store)
    /\ \A n \in lastOp.copied : <<timestamp, n>> \in sink
    /\ Published =>
          /\ lastOp.copied = FileNames(store)
          /\ LogName(timestamp) \in lastOp.copied

C16_Witness ==
    /\ Published
    /\ \E n \in lastOp.copied : n[3] # timestamp
    /\ \E n \in lastOp.copied : n[3] = timestamp /\ n[1] = "archive"

AfterLoop == {"save", "cleanup", "upload", "summary", "done"}

\* C17: run state is frozen once built: within a run, a record is never
\* changed after it is appended; the run status changes only from
\* 'in_progress' to 'completed' or 'partial', is set once
\* backup_all_repositories has returned and never changes again; the steps
\* after the main loop leave records, status, summary and errors as they are.
C17_RunStateFrozen ==
    /\ [](pc \in AfterLoop => Returned /\ backup_log.status \in {"completed", "partial"})
    /\ [][(pc # "start" /\ pc' # "start") =>
             /\ Len(Records') >= Len(Records)
             /\ \A i \in 1..Len(Records) : Records'[i] = Records[i]
             /\ backup_log'.status # backup_log.status =>
                   /\ backup_log.status = "in_progress"
                   /\ backup_log'.status \in {"completed", "partial"}
             /\ pc \in AfterLoop => backup_log' = backup_log]_vars

C17_Witness ==
    /\ pc = "done"
    /\ lastOp.op = "upload_warning"
    /\ backup_log.status = "partial"
    /\ \E i \in 1..Len(Records) : Records[i].status = "success"

\* C18: order of one invocation of main: records are appended one
\* repository after the other, in order; the status is computed after the last
\* record; the log is written after the status and before pruning; pruning is
\* over before publishing starts; the log of the current run_id is in the store
\* when publishing copies its files.
C18_MainOrdering ==
    /\ [](/\ pc = "loop" =>
                /\ Len(Records) = idx - 1
                /\ ~Returned
                /\ \A i \in 1..Len(Records) : Records[i].name = repos[i]
          /\ Returned => Len(Records) = Len(repos)
          /\ pc \in {"list", "loop", "save", "cleanup"} => lastOp.copied = {}
          /\ pc \in {"cleanup", "upload", "summary", "done"} =>
                Returned /\ LogName(timestamp) \in FileNames(store)
          /\ pc = "upload" => lastOp.op = "cleanup"
          /\ Published => LogName(timestamp) \in lastOp.copied)
    /\ [][/\ sink' # sink => pc = "upload" /\ lastOp.op = "cleanup"
          /\ pc = "save" /\ pc' = "cleanup" =>
                Returned /\ store' = WriteFile(store, LogName(timestamp), clock, LogBytes)
          /\ pc = "cleanup" => sink' = sink /\ backup_log' = backup_log]_vars

C18_Witness ==
    /\ pc = "summary"
    /\ Len(repos) = 2
    /\ LogName(timestamp) \in lastOp.copied
    /\ <<timestamp, LogName(timestamp)>> \in sink

\* C19 as stated: every record with status 'failed' has at least one entry
\* of the errors list that names its repository.
C19_FailedHasErrorEntry ==
    \A i \in 1..Len(Records) :
        Records[i].status = "failed" => ErrorsNaming(Records[i].name) # {}

\* C19 amended: a 'failed' record has an entry of the errors list naming its
\* repository when its clone failed or an exception was caught (a missing
\* archive included); it has none exactly when no exception was raised and the
\* verification found an archive of size 0.
C19_FailedErrorEntryUnlessEmptyArchive ==
    \A i \in 1..Len(Records) :
        LET r == Records[i] IN
        r.status = "failed" =>
            /\ ErrorsNaming(r.name) = {} <=>
                  (trace[i].clone = "ok" /\ trace[i].raisedAt = "none")
            /\ ErrorsNaming(r.name) = {} =>
                  /\ r.archive_path = ArchiveName(r.name, timestamp)
                  /\ r.size_bytes = 0
                  /\ r.checksum = Digest

C19_Witness ==
    /\ \E i \in 1..Len(Records) :
          Records[i].status = "failed" /\ ErrorsNaming(Records[i].name) = {}
    /\ \E i \in 1..Len(Records) :
          /\ Records[i].status = "failed"
          /\ BackupError(Records[i].name) \in Range(Errors)

AllReadable(tree) == \A p \in DOMAIN tree : tree[p].readable

\* the files whose content differs between two trees with the same files
ChangedFiles(t1, t2) == {p \in DOMAIN t1 : t1[p] # t2[p]}

\* C12: for every tree, calculate_checksum returns the same digest whatever
\* the order in which the filesystem lists the entries of each directory.
C12_ChecksumIgnoresListingOrder ==
    \A i, j \in 1..Len(ck.calls) :
        ck.calls[i].tree = ck.calls[j].tree => ck.calls[i].digest = ck.calls[j].digest

C12_Witness ==
    /\ Len(ck.calls) = 2
    /\ ck.calls[1].tree = ck.calls[2].tree
    /\ \E d \in DOMAIN ck.calls[1].order :
          /\ ck.calls[1].order[d] # ck.calls[2].order[d]
          /\ Cardinality(FilesOf(ck.tree, d)) + Cardinality(DirsOf(ck.tree, d)) = 2
    /\ ck.calls[1].digest[2] # << >>

\* C13 as stated: with a collision-free hash and readable files, the
\* digest of an unmodified copy is the same and the digest after any change of
\* file contents is different.
C13_DigestChangesWithAnyContentChange ==
    \A i, j \in 1..Len(ck.calls) :
        LET t1 == ck.calls[i].tree
            t2 == ck.calls[j].tree
        IN  (AllReadable(t1) /\ AllReadable(t2) /\ DOMAIN t1 = DOMAIN t2) =>
                (t1 = t2 <=> ck.calls[i].digest = ck.calls[j].digest)

\* C13 amended: with a collision-free hash and readable files, the digest
\* of an unmodified copy is the same, and the digest after a change of the
\* content of exactly one file is different.
C13_DigestChangesWithOneFileChange ==
    \A i, j \in 1..Len(ck.calls) :
        LET t1 == ck.calls[i].tree
            t2 == ck.calls[j].tree
        IN  (AllReadable(t1) /\ AllReadable(t2) /\ DOMAIN t1 = DOMAIN t2) =>
                /\ t1 = t2 => ck.calls[i].digest = ck.calls[j].digest
                /\ Cardinality(ChangedFiles(t1, t2)) = 1 =>
                      ck.calls[i].digest # ck.calls[j].digest

C13_Witness ==
    /\ Len(ck.calls) = 2
    /\ AllReadable(ck.calls[1].tree) /\ AllReadable(ck.calls[2].tree)
    /\ Cardinality(DOMAIN ck.tree) = 2
    /\ ChangedFiles(ck.calls[1].tree, ck.calls[2].tree) \in {{p} : p \in {q \in Paths : Len(q) = 2}}
    /\ ck.calls[1].digest # ck.calls[2].digest
====
